---- MODULE Spec2Model ----
(***************************************************************************)
(* A model of orient (src/src/app.rs): the workspace of an HTTP request    *)
(* workbench (directories, the Collection Store `buffers`, open tabs), the *)
(* Postman import, the request built for a dispatch, the worker thread of  *)
(* each dispatch, and the inbox (an mpsc channel) its snapshot comes back  *)
(* through.                                                                *)
(*                                                                         *)
(* Text that the code inspects character by character (method names,      *)
(* header names, the Content-Length value) is a sequence of one-character  *)
(* strings; text the code only stores and compares whole (ids, header      *)
(* values, bodies) is a string.  An Option is a sequence of length <= 1.   *)
(***************************************************************************)
EXTENDS Integers, Sequences, FiniteSets, TLC

VARIABLES
    directory,                  \* HttpApp.directory: id -> Directory
    buffers,                    \* ApiCollection.buffers: id -> Location
    tree,                       \* HttpApp.tree: the open tabs and the active one
    resource,                   \* MyContext.resource: Option<Resource>
    reqest_editor,              \* MyContext.reqest_editor
    inbox,                      \* the mpsc channel sender -> receiver
    workers,                    \* one spawned thread per dispatch
    show_confirmation_dialog,   \* HttpApp.show_confirmation_dialog
    dir_rename,                 \* HttpApp.dir_rename
    uuids,                      \* how many Uuid::new_v4() were drawn
    picked,                     \* the file the file dialog returns
    alive                       \* FALSE once the interactive thread panicked

vars == <<directory, buffers, tree, resource, reqest_editor, inbox, workers,
          show_confirmation_dialog, dir_rename, uuids, picked, alive>>

----------------------------------------------------------------------------
(* Bounds of the model. *)

MaxUuid == 2        \* Uuid::new_v4() calls in a behaviour
MaxDispatch == 2    \* "Go" clicks in a behaviour
MaxDocs == 2        \* documents in the picked archive
MaxPairs == 2       \* entries of a params / form_params / header list

----------------------------------------------------------------------------
(* Text. *)

LowerChars == <<"a","b","c","d","e","f","g","h","i","j","k","l","m",
                "n","o","p","q","r","s","t","u","v","w","x","y","z">>
UpperChars == <<"A","B","C","D","E","F","G","H","I","J","K","L","M",
                "N","O","P","Q","R","S","T","U","V","W","X","Y","Z">>

UpperChar(c) ==
    IF \E i \in 1..26 : LowerChars[i] = c
    THEN UpperChars[CHOOSE i \in 1..26 : LowerChars[i] = c]
    ELSE c

LowerChar(c) ==
    IF \E i \in 1..26 : UpperChars[i] = c
    THEN LowerChars[CHOOSE i \in 1..26 : UpperChars[i] = c]
    ELSE c

\* str::to_uppercase on ASCII text
to_uppercase(s) == [i \in 1..Len(s) |-> UpperChar(s[i])]

to_lowercase(s) == [i \in 1..Len(s) |-> LowerChar(s[i])]

\* every way of writing the text s in upper and lower case letters
Casings(s) ==
    {t \in [1..Len(s) -> {s[i] : i \in 1..Len(s)}
                         \cup {LowerChar(s[i]) : i \in 1..Len(s)}] :
        \A i \in 1..Len(s) : t[i] \in {s[i], LowerChar(s[i])}}

GET == <<"G","E","T">>
POST == <<"P","O","S","T">>
PUT == <<"P","U","T">>
PATCH == <<"P","A","T","C","H">>
DELETE == <<"D","E","L","E","T","E">>
HEAD == <<"H","E","A","D">>

Methods == {"Get", "Post", "Put", "Patch", "Delete", "Head"}

ContentTypes == {"Json", "FormUrlEncoded", "FormData"}

\* Method::to_text
to_text(m) ==
    CASE m = "Get" -> GET
      [] m = "Post" -> POST
      [] m = "Put" -> PUT
      [] m = "Patch" -> PATCH
      [] m = "Delete" -> DELETE
      [] m = "Head" -> HEAD

\* Method::from_text
from_text(method) ==
    IF to_uppercase(method) = GET THEN "Get"
    ELSE IF to_uppercase(method) = POST THEN "Post"
    ELSE IF to_uppercase(method) = PUT THEN "Post"
    ELSE IF to_uppercase(method) = PATCH THEN "Patch"
    ELSE IF to_uppercase(method) = DELETE THEN "Delete"
    ELSE IF to_uppercase(method) = HEAD THEN "Head"
    ELSE "Get"

----------------------------------------------------------------------------
(* The request of a dispatch (ureq::Request as the code drives it). *)

\* header names the model's Locations and the dispatcher use
ContentType == <<"C","o","n","t","e","n","t","-","T","y","p","e">>
Accept == <<"A","c","c","e","p","t">>
XTrace == <<"X","-","T">>

NoBody == [kind |-> "none"]

\* ureq::request(method, url)
request(method, url) ==
    [method |-> method, url |-> url, headers |-> <<>>, query |-> <<>>,
     body |-> NoBody]

\* e.0.is_empty() == false, the filter of the header and params lists
NonEmptyKey(e) == e[1] # <<>>

\* the lists as they are, blank rows included
FilterNothing(list) == list

Filter(list) == SelectSeq(list, NonEmptyKey)

\* a header name ureq lets repeat: one that starts with "x-" or "X-"
XHeader(name) == Len(name) >= 2 /\ name[1] \in {"x", "X"} /\ name[2] = "-"

\* Request::set(header, value): ureq replaces the headers already set under
\* exactly this name, unless the name starts with x- / X-, and adds the new one
set(req, header, value) ==
    [req EXCEPT !.headers =
        Append(IF XHeader(header)
               THEN @
               ELSE SelectSeq(@, LAMBDA h : h[1] # header),
               <<header, value>>)]

\* Request::query(param, value): the pair is appended to the query string
query(req, param, value) ==
    [req EXCEPT !.query = Append(@, <<param, value>>)]

RECURSIVE SetAll(_, _)
\* for e in headers { request = request.set(&e.0, &e.1); }
SetAll(req, list) ==
    IF list = <<>> THEN req
    ELSE SetAll(set(req, Head(list)[1], Head(list)[2]), Tail(list))

RECURSIVE QueryAll(_, _)
\* for e in params { request = request.query(&e.0, &e.1); }
QueryAll(req, list) ==
    IF list = <<>> THEN req
    ELSE QueryAll(query(req, Head(list)[1], Head(list)[2]), Tail(list))

\* Request::header(name): the lookup ignores the case of ASCII letters
HasHeader(req, name) ==
    \E i \in 1..Len(req.headers) :
        to_lowercase(req.headers[i][1]) = to_lowercase(name)

\* Request::call(): the request goes out without a body
call(req) == req

\* Request::send_string(data): the text is the body
send_string(req, data) == [req EXCEPT !.body = [kind |-> "string", data |-> data]]

\* Request::send_form(data): every pair given is url-encoded into the body, and
\* a Content-Type is set when the request has none
send_form(req, data) ==
    [(IF HasHeader(req, ContentType)
      THEN req
      ELSE set(req, ContentType, "application/x-www-form-urlencoded"))
     EXCEPT !.body = [kind |-> "form", pairs |-> data]]

\* the part of the request the interactive thread builds on "Go"
GoRequest(location) ==
    SetAll(request(to_text(location.method), location.url),
           Filter(location.header))

\* the rest of it, built by the spawned thread from its clone of the Location
ThreadRequest(req, resource_location) ==
    CASE resource_location.method = "Get" ->
            call(QueryAll(req, Filter(resource_location.params)))
      [] resource_location.method = "Post" ->
            (CASE resource_location.content_type = "Json" ->
                    send_string(set(req, ContentType, "application/json"),
                                resource_location.body)
               [] resource_location.content_type = "FormUrlEncoded" ->
                    send_form(QueryAll(req, Filter(resource_location.params)),
                              resource_location.form_params)
               [] OTHER -> call(req))
      [] OTHER -> call(req)

----------------------------------------------------------------------------
(* The response of a dispatch and the snapshot made of it. *)

Digits == <<"0","1","2","3","4","5","6","7","8","9">>

IsDigit(c) == \E i \in 1..10 : Digits[i] = c

DigitValue(c) == (CHOOSE i \in 1..10 : Digits[i] = c) - 1

RECURSIVE Decimal(_)
Decimal(s) ==
    IF s = <<>> THEN 0
    ELSE 10 * Decimal(SubSeq(s, 1, Len(s) - 1)) + DigitValue(s[Len(s)])

\* str::parse::<usize>(): an optional "+", then one or more digits; a Result
ParseUsize(s) ==
    LET t == IF s # <<>> /\ s[1] = "+" THEN Tail(s) ELSE s
    IN  IF t = <<>> \/ \E i \in 1..Len(t) : ~IsDigit(t[i])
        THEN <<>>
        ELSE <<Decimal(t)>>

\* Result<Response>: Err(Transport), or a response of any status.  The
\* Content-Length header is an Option; so is the body, absent when
\* Response::into_string() fails to decode it.
TransportError == [ok |-> FALSE]

Response(status, content_length, body) ==
    [ok |-> TRUE, status |-> status, content_length |-> content_length,
     body |-> body]

\* a transport failure made into an empty snapshot
from_response_default_on_failure(response, url, dispatch) ==
    IF response.ok
    THEN LET parsed == ParseUsize(IF response.content_length = <<>>
                                  THEN <<"0">>
                                  ELSE response.content_length[1])
             body == IF response.body = <<>> THEN "" ELSE response.body[1]
         IN  IF parsed = <<>>
             THEN [kind |-> "panic"]
             ELSE [kind |-> "some",
                   resource |->
                      [url |-> url,
                       body |-> body,
                       length |-> IF parsed[1] = 0 THEN Len(body) ELSE parsed[1],
                       status |-> response.status,
                       dispatch |-> dispatch]]
    ELSE [kind |-> "some",
          resource |-> [url |-> "", body |-> "", length |-> 0, status |-> 0,
                        dispatch |-> dispatch]]

\* Resource::from_response: Some(snapshot), None, or a panic of the calling
\* thread.  `dispatch` records which dispatch the snapshot answers.
from_response(response, url, dispatch) ==
    IF response.ok
    THEN LET parsed == ParseUsize(IF response.content_length = <<>>
                                  THEN <<"0">>
                                  ELSE response.content_length[1])
             body == IF response.body = <<>> THEN "" ELSE response.body[1]
             body_len == Len(body)
         IN  IF parsed = <<>>
             THEN [kind |-> "panic"]
             ELSE [kind |-> "some",
                   resource |->
                      [url |-> url,
                       body |-> body,
                       length |-> IF parsed[1] = 0 THEN body_len ELSE parsed[1],
                       status |-> response.status,
                       dispatch |-> dispatch]]
    ELSE [kind |-> "none"]

\* a JSON text of 42 bytes
Body42 == "{\"k\":\"0123456789012345678901234567890123\"}"

\* texts serde_json::from_str accepts, among the bodies of the model
JsonTexts == {"{}", "{\"k\":1}", Body42}

----------------------------------------------------------------------------
(* The workspace. *)

Insert(map, key, value) ==
    [k \in DOMAIN map \cup {key} |-> IF k = key THEN value ELSE map[k]]

EmptyMap == <<>>

UuidText == <<"u1", "u2", "u3", "u4", "u5", "u6">>

\* Uuid::new_v4().to_string(): a fresh id each time
new_v4(drawn) == UuidText[drawn + 1]

Directory(id, locations) == [id |-> id, locations |-> locations]

Url == "https://httpbin.org/get"

\* the Location of the directory "add" button
NewLocation(id) ==
    [id |-> id, url |-> Url, method |-> "Get", params |-> <<>>, body |-> "",
     form_params |-> <<>>, header |-> << <<<<>>, "">> >>,
     content_type |-> "Json"]

\* the Location the import makes of a PostmanItem
ImportedLocation(item) ==
    [id |-> item.id, url |-> item.request.url, method |-> from_text(item.request.method),
     params |-> <<>>, body |-> item.request.body,
     form_params |-> item.request.urlencoded, header |-> item.request.header,
     content_type |-> "Json"]

\* the state the update cycle works on
State ==
    [directory |-> directory, buffers |-> buffers, tree |-> tree,
     resource |-> resource, reqest_editor |-> reqest_editor, inbox |-> inbox,
     workers |-> workers, show_confirmation_dialog |-> show_confirmation_dialog,
     dir_rename |-> dir_rename, uuids |-> uuids, alive |-> alive]

\* an unwrap() of None or Err: the interactive thread panics
Panic(s) == [s EXCEPT !.alive = FALSE]

----------------------------------------------------------------------------
(* HttpApp::update, the left panel. *)

\* what the user does in one update cycle: at most one click, and the set of
\* directories whose collapsing header is expanded in this cycle
Event(kind, dir, id, editor, expanded) ==
    [kind |-> kind, dir |-> dir, id |-> id, editor |-> editor,
     expanded |-> expanded]

\* the "Add" button: a new, empty Directory
AddDirectory(s) ==
    LET id == new_v4(s.uuids)
    IN  [s EXCEPT !.uuids = @ + 1,
                  !.directory = Insert(@, id, Directory(id, <<>>))]

RECURSIVE InsertItems(_, _)
\* for item in p.item.into_iter(): one Location per item, keyed by the item's id
InsertItems(map, items) ==
    IF items = <<>> THEN map
    ELSE InsertItems(Insert(map, Head(items).id, ImportedLocation(Head(items))),
                     Tail(items))

\* the body of the loop over the archive, for one Postman document
ImportDocument(s, p) ==
    [s EXCEPT !.buffers = InsertItems(@, p.item),
              !.directory =
                  Insert(@, p.info._postman_id,
                         Directory(p.info._postman_id,
                                   [i \in 1..Len(p.item) |-> p.item[i].id]))]

RECURSIVE ImportDocuments(_, _, _, _)
\* for i in from..=to: by_index(i), read_to_string and serde_json::from_str,
\* each unwrapped
ImportDocuments(s, docs, from, to) ==
    IF from > to THEN s
    ELSE IF ~docs[from].ok THEN Panic(s)
    ELSE ImportDocuments(ImportDocument(s, docs[from]), docs, from + 1, to)

\* the "Import" button with a file picked: File::open and ZipArchive::new are
\* unwrapped, and the loop is `for i in 0..archive.len() - 1`
Import(s, file) ==
    IF ~file.readable THEN Panic(s)
    ELSE IF Len(file.docs) = 0 THEN Panic(s)
    ELSE ImportDocuments(s, file.docs, 1, Len(file.docs) - 1)

\* the directory "add" button: a new Location, listed last in the Directory
AddLocation(s, dir) ==
    LET id == new_v4(s.uuids)
    IN  [s EXCEPT !.uuids = @ + 1,
                  !.directory[dir].locations = Append(@, id),
                  !.buffers = Insert(@, id, NewLocation(id))]

\* the "rename" button
Rename(s, dir) ==
    [s EXCEPT !.dir_rename = dir, !.show_confirmation_dialog = TRUE]

\* Tree::find_tab
find_tab(t, id) == \E i \in 1..Len(t.tabs) : t.tabs[i] = id

\* a click on the label of a Location: its tab becomes the active one, and is
\* opened first when it is not open
SelectLocation(s, id) ==
    IF find_tab(s.tree, id)
    THEN [s EXCEPT !.tree.active =
                       CHOOSE i \in 1..Len(s.tree.tabs) : s.tree.tabs[i] = id]
    ELSE [s EXCEPT !.tree = [tabs |-> Append(@.tabs, id),
                             active |-> Len(@.tabs) + 1]]

\* localtion_del of the Directory dir in this cycle: "" unless a Location's
\* "del" button was clicked in it
localtion_del(ev, dir) ==
    IF ev.kind = "LocDel" /\ ev.dir = dir THEN ev.id ELSE ""

\* dir_del of this cycle: "" unless a Directory's "del" button was clicked
dir_del(ev) == IF ev.kind = "DirDel" THEN ev.dir ELSE ""

\* the body of an expanded collapsing header looks every listed id up in
\* buffers and unwraps
ListingFails(s, ev) ==
    \E dir \in ev.expanded \cap DOMAIN s.directory :
        \E i \in 1..Len(s.directory[dir].locations) :
            s.directory[dir].locations[i] \notin DOMAIN s.buffers

\* the Location deleted leaves the Collection Store as well
RetainLocationsAndStore(s, ev) ==
    [s EXCEPT !.directory =
                  [dir \in DOMAIN @ |->
                      IF dir \in ev.expanded
                      THEN [@[dir] EXCEPT !.locations =
                               SelectSeq(@, LAMBDA v : v # localtion_del(ev, dir))]
                      ELSE @[dir]],
              !.buffers =
                  [id \in {v \in DOMAIN @ :
                              \A dir \in ev.expanded : v # localtion_del(ev, dir)}
                      |-> @[id]]]

\* dir.1.locations.retain(|v| v != &localtion_del), in the expanded Directories
RetainLocations(s, ev) ==
    [s EXCEPT !.directory =
        [dir \in DOMAIN @ |->
            IF dir \in ev.expanded
            THEN [@[dir] EXCEPT !.locations =
                     SelectSeq(@, LAMBDA v : v # localtion_del(ev, dir))]
            ELSE @[dir]]]

\* the loop over the Directories
DirectoryLoop(s, ev) ==
    LET clicked ==
            CASE ev.kind = "LocAdd" -> AddLocation(s, ev.dir)
              [] ev.kind = "Rename" -> Rename(s, ev.dir)
              [] ev.kind = "Select" -> SelectLocation(s, ev.id)
              [] OTHER -> s
    IN  IF ListingFails(clicked, ev)
        THEN Panic(clicked)
        ELSE RetainLocations(clicked, ev)

\* self.directory.retain(|v, _| v != &dir_del)
RetainDirectories(s, ev) ==
    [s EXCEPT !.directory =
        [k \in {v \in DOMAIN s.directory : v # dir_del(ev)} |-> s.directory[k]]]

\* the rename dialog, shown while show_confirmation_dialog is set: it looks the
\* Directory dir_rename up and unwraps; "Ok" closes it
RenameDialog(s, ev) ==
    IF ~s.show_confirmation_dialog THEN s
    ELSE IF s.dir_rename \notin DOMAIN s.directory THEN Panic(s)
    ELSE IF ev.kind = "Ok"
         THEN [s EXCEPT !.show_confirmation_dialog = FALSE, !.dir_rename = ""]
         ELSE s

\* the left panel of one update cycle
LeftPanel(s, ev) ==
    LET buttons ==
            CASE ev.kind = "Add" -> AddDirectory(s)
              [] ev.kind = "Import" -> Import(s, picked)
              [] OTHER -> s
        listed == IF buttons.alive THEN DirectoryLoop(buttons, ev) ELSE buttons
    IN  IF listed.alive
        THEN RenameDialog(RetainDirectories(listed, ev), ev)
        ELSE listed

----------------------------------------------------------------------------
(* MyContext::ui, the tab the DockArea shows. *)

BlankPair == << <<>>, "" >>

\* "Go": the request gets its headers, and a thread is spawned with it, a clone
\* of the Location and a clone of the sender.  The thread's record keeps, as
\* history, the response it got, how many snapshots it sent and the place of
\* its send among the sends of all threads.
Spawn(s, location) ==
    [s EXCEPT !.workers =
        Append(@, [pc |-> "spawned",
                   request |-> GoRequest(location),
                   resource_location |-> location,
                   response |-> <<>>,
                   sent |-> 0,
                   order |-> 0])]

\* the newest snapshot of the inbox taken first
try_recv_newest(s) ==
    IF s.inbox = <<>> THEN s
    ELSE [s EXCEPT !.resource = <<s.inbox[Len(s.inbox)]>>,
                   !.inbox = SubSeq(s.inbox, 1, Len(s.inbox) - 1)]

\* match self.receiver.try_recv(): the oldest snapshot of the inbox, if there
\* is one, becomes the displayed one
try_recv(s) ==
    IF s.inbox = <<>> THEN s
    ELSE [s EXCEPT !.resource = <<Head(s.inbox)>>, !.inbox = Tail(s.inbox)]

\* the editor shown puts a blank row into a list that is empty
SeedRow(location, editor) ==
    CASE editor = "Params" /\ location.params = <<>> ->
            [location EXCEPT !.params = <<BlankPair>>]
      [] editor = "Body" /\ location.content_type # "Json"
                         /\ location.form_params = <<>> ->
            [location EXCEPT !.form_params = <<BlankPair>>]
      [] editor = "Headers" /\ location.header = <<>> ->
            [location EXCEPT !.header = <<BlankPair>>]
      [] OTHER -> location

\* the selectable labels Params / Body / Headers, then the editor chosen
RequestEditor(s, tab, ev) ==
    LET editor == IF ev.kind = "Editor" THEN ev.editor ELSE s.reqest_editor
    IN  [s EXCEPT !.reqest_editor = editor,
                  !.buffers[tab] = SeedRow(@, editor)]

\* ui_resource: a body that is not empty is parsed as JSON, and unwrapped
ui_resource(s) ==
    IF s.resource # <<>> /\ Len(s.resource[1].body) >= 1
                         /\ s.resource[1].body \notin JsonTexts
    THEN Panic(s)
    ELSE s

ui(s, tab, ev) ==
    LET location == s.buffers[tab]
        fetched == IF ev.kind = "Go" THEN Spawn(s, location) ELSE s
    IN  ui_resource(RequestEditor(try_recv(fetched), tab, ev))

\* Tree::remove_tab, for the close button of a tab (TabViewer::on_close is not
\* overridden, and allows it): the tab leaves the leaf, and the active tab
\* moves down by one when the closed tab is at or before it
remove_tab(t, id) ==
    LET index == CHOOSE i \in 1..Len(t.tabs) : t.tabs[i] = id
        tabs == [i \in 1..(Len(t.tabs) - 1) |->
                    IF i < index THEN t.tabs[i] ELSE t.tabs[i + 1]]
    IN  [tabs |-> tabs,
         active |-> IF tabs = <<>> THEN 0
                    ELSE IF index <= t.active /\ t.active > 1 THEN t.active - 1
                    ELSE t.active]

\* DockArea::show: the title of every open tab and the ui of the active one;
\* both look the tab's id up in buffers and unwrap.  A tab whose close button
\* was clicked is removed when the tabs have been shown.
Dock(s, ev) ==
    IF s.tree.tabs = <<>> THEN s
    ELSE IF \E i \in 1..Len(s.tree.tabs) : s.tree.tabs[i] \notin DOMAIN s.buffers
    THEN Panic(s)
    ELSE LET shown == ui(s, s.tree.tabs[s.tree.active], ev)
         IN  IF shown.alive /\ ev.kind = "Close"
             THEN [shown EXCEPT !.tree = remove_tab(@, ev.id)]
             ELSE shown

\* HttpApp::update: the left panel, then the DockArea; a panic ends the cycle
Cycle(s, ev) ==
    LET left == LeftPanel(s, ev)
    IN  IF left.alive THEN Dock(left, ev) ELSE left

\* one update cycle of the interactive thread
Update(ev) ==
    /\ alive
    /\ \E s \in {Cycle(State, ev)} :
           /\ directory' = s.directory
           /\ buffers' = s.buffers
           /\ tree' = s.tree
           /\ resource' = s.resource
           /\ reqest_editor' = s.reqest_editor
           /\ inbox' = s.inbox
           /\ workers' = s.workers
           /\ show_confirmation_dialog' = s.show_confirmation_dialog
           /\ dir_rename' = s.dir_rename
           /\ uuids' = s.uuids
           /\ alive' = s.alive
    /\ UNCHANGED picked

----------------------------------------------------------------------------
(* The update cycles, by what the user clicks. *)

Editors == {"Params", "Body", "Headers"}

\* a cycle without a click
Idle ==
    \E expanded \in SUBSET DOMAIN directory :
        Update(Event("None", "", "", "", expanded))

DirAdd ==
    /\ uuids < MaxUuid
    /\ \E expanded \in SUBSET DOMAIN directory :
        Update(Event("Add", "", "", "", expanded))

ImportClick ==
    \E expanded \in SUBSET DOMAIN directory :
        Update(Event("Import", "", "", "", expanded))

LocAdd ==
    /\ uuids < MaxUuid
    /\ \E dir \in DOMAIN directory, expanded \in SUBSET DOMAIN directory :
        Update(Event("LocAdd", dir, "", "", expanded))

DirDel ==
    \E dir \in DOMAIN directory, expanded \in SUBSET DOMAIN directory :
        Update(Event("DirDel", dir, "", "", expanded))

RenameClick ==
    \E dir \in DOMAIN directory, expanded \in SUBSET DOMAIN directory :
        Update(Event("Rename", dir, "", "", expanded))

RenameOk ==
    /\ show_confirmation_dialog
    /\ \E expanded \in SUBSET DOMAIN directory :
        Update(Event("Ok", "", "", "", expanded))

\* the buttons of a Location are in the expanded header of its Directory
LocSelect ==
    \E dir \in DOMAIN directory, expanded \in SUBSET DOMAIN directory :
        /\ dir \in expanded
        /\ \E i \in 1..Len(directory[dir].locations) :
              Update(Event("Select", dir, directory[dir].locations[i], "",
                           expanded))

LocDel ==
    \E dir \in DOMAIN directory, expanded \in SUBSET DOMAIN directory :
        /\ dir \in expanded
        /\ \E i \in 1..Len(directory[dir].locations) :
              Update(Event("LocDel", dir, directory[dir].locations[i], "",
                           expanded))

EditorSelect ==
    /\ tree.tabs # <<>>
    /\ \E editor \in Editors \ {reqest_editor},
          expanded \in SUBSET DOMAIN directory :
        Update(Event("Editor", "", "", editor, expanded))

\* the close button of an open tab
TabClose ==
    \E i \in 1..Len(tree.tabs), expanded \in SUBSET DOMAIN directory :
        Update(Event("Close", "", tree.tabs[i], "", expanded))

Go ==
    /\ tree.tabs # <<>>
    /\ Len(workers) < MaxDispatch
    /\ \E expanded \in SUBSET DOMAIN directory :
        Update(Event("Go", "", "", "", expanded))

----------------------------------------------------------------------------
(* The thread of a dispatch. *)

\* the thread builds the rest of the request and makes the call
WorkerCall(w) ==
    /\ alive
    /\ workers[w].pc = "spawned"
    /\ workers' = [workers EXCEPT
                      ![w].pc = "calling",
                      ![w].request = ThreadRequest(@, workers[w].resource_location)]
    /\ UNCHANGED <<directory, buffers, tree, resource, reqest_editor, inbox,
                   show_confirmation_dialog, dir_rename, uuids, picked, alive>>

\* how many snapshots were sent so far
Posted == Cardinality({w \in 1..Len(workers) : workers[w].sent > 0})

\* the call returns `response`: from_response, then the send of a Some
WorkerReturn(w, response) ==
    /\ alive
    /\ workers[w].pc = "calling"
    /\ LET made == from_response(response, workers[w].request.url, w)
       IN  CASE made.kind = "some" ->
                   /\ inbox' = Append(inbox, made.resource)
                   /\ workers' = [workers EXCEPT ![w].pc = "done",
                                                 ![w].response = <<response>>,
                                                 ![w].sent = @ + 1,
                                                 ![w].order = Posted + 1]
             [] made.kind = "none" ->
                   /\ inbox' = inbox
                   /\ workers' = [workers EXCEPT ![w].pc = "done",
                                                 ![w].response = <<response>>]
             [] made.kind = "panic" ->
                   /\ inbox' = inbox
                   /\ workers' = [workers EXCEPT ![w].pc = "panicked",
                                                 ![w].response = <<response>>]
    /\ UNCHANGED <<directory, buffers, tree, resource, reqest_editor,
                   show_confirmation_dialog, dir_rename, uuids, picked, alive>>

\* the network round-trip completes with an HTTP response, of any status
WorkerResponse(w, responses) ==
    \E response \in responses : WorkerReturn(w, response)

\* the network round-trip fails: connect, timeout, TLS
WorkerFailure(w) == WorkerReturn(w, TransportError)

----------------------------------------------------------------------------
(* The inputs: the files the user may pick, the responses of the servers. *)

PostmanItem(id, method) ==
    [id |-> id,
     request |-> [method |-> method, url |-> Url, header |-> <<>>, body |-> "",
                  urlencoded |-> <<>>]]

Postman(id, item) == [ok |-> TRUE, info |-> [_postman_id |-> id], item |-> item]

\* an archive member that is not JSON of the expected shape
Malformed == [ok |-> FALSE]

\* a file that cannot be opened, or is no zip archive
Unreadable == [readable |-> FALSE]

Archive(docs) == [readable |-> TRUE, docs |-> docs]

SeqUpTo(S, n) == UNION {[1..k -> S] : k \in 0..n}

Documents ==
    {Postman("c1", <<PostmanItem("i1", GET), PostmanItem("i2", <<"p","u","t">>)>>),
     Postman("c2", <<PostmanItem("i2", POST)>>),
     Postman("c3", <<>>),
     Malformed}

\* a document without ids has "" for them (#[serde(default)])
WithoutIds == Postman("", <<PostmanItem("", GET)>>)

\* a document whose item has no "id" member, next to one that has
WithoutItemIds == Postman("c4", <<PostmanItem("", GET), PostmanItem("i4", GET)>>)

\* an archive of three documents, two of which list the item i2
SharedItem ==
    Archive(<<Postman("c1", <<PostmanItem("i1", GET), PostmanItem("i2", <<"p","u","t">>)>>),
              Postman("c2", <<PostmanItem("i2", POST)>>),
              Postman("c3", <<>>)>>)

Files == {Unreadable} \cup {Archive(docs) : docs \in SeqUpTo(Documents, MaxDocs)}

Statuses == {200, 404, 500}

ContentLengths ==
    {<<>>, << <<"0">> >>, << <<"4","2">> >>, << <<"1","0","0">> >>,
     << <<"+","7">> >>, << <<"a","b","c">> >>, << <<"-","1">> >>}

Bodies == {<<>>, <<"">>, <<"{}">>, <<"oops">>, <<Body42>>}

Responses ==
    {Response(status, content_length, body) :
        status \in Statuses, content_length \in ContentLengths, body \in Bodies}

\* the responses of the dispatch specification: a few of each kind
SomeResponses ==
    {Response(200, <<>>, <<"{}">>),
     Response(404, << <<"1","0","0">> >>, <<"{\"k\":1}">>),
     Response(200, << <<"0">> >>, <<"oops">>),
     Response(500, << <<"a","b","c">> >>, <<"">>)}

----------------------------------------------------------------------------
(* The workspace specification: the update cycles of the left panel. *)

\* HttpApp::default, and a file for the dialog to return
InitWorkspace(files) ==
    /\ directory = EmptyMap
    /\ buffers = EmptyMap
    /\ tree = [tabs |-> <<>>, active |-> 0]
    /\ resource = <<>>
    /\ reqest_editor = "Params"
    /\ inbox = <<>>
    /\ workers = <<>>
    /\ show_confirmation_dialog = FALSE
    /\ dir_rename = ""
    /\ uuids = 0
    /\ picked \in files
    /\ alive = TRUE

\* archives of two documents: the first of each kind
WorkspaceFiles ==
    {Archive(<<doc, Postman("c2", <<PostmanItem("i2", POST)>>)>>) :
        doc \in Documents \cup {WithoutIds, WithoutItemIds}}

Init == InitWorkspace(WorkspaceFiles)

Next ==
    \/ Idle
    \/ DirAdd
    \/ ImportClick
    \/ LocAdd
    \/ DirDel
    \/ RenameClick
    \/ RenameOk
    \/ LocSelect
    \/ LocDel

Spec == Init /\ [][Next]_vars

----------------------------------------------------------------------------
(* The import specification: any file, into an empty or a used workspace. *)

InitImport == InitWorkspace(Files)

NextImport ==
    \/ ImportClick
    \/ DirAdd
    \/ Idle

SpecImport == InitImport /\ [][NextImport]_vars

----------------------------------------------------------------------------
(* The dispatch specification: "Go" clicks on an open tab, the threads they  *)
(* spawn and the cycles that poll the inbox.                                 *)

\* the workspace after "Add", the Directory's "add" and a click on the label
\* of the new Location, with the Location as the editors may have left it
InitTab(locations) ==
    /\ directory = Insert(EmptyMap, "u1", Directory("u1", <<"u2">>))
    /\ \E location \in locations : buffers = Insert(EmptyMap, "u2", location)
    /\ tree = [tabs |-> <<"u2">>, active |-> 1]
    /\ resource = <<>>
    /\ reqest_editor = "Params"
    /\ inbox = <<>>
    /\ workers = <<>>
    /\ show_confirmation_dialog = FALSE
    /\ dir_rename = ""
    /\ uuids = 2
    /\ picked = Unreadable
    /\ alive = TRUE

InitDispatch == InitTab({[NewLocation("u2") EXCEPT !.params = <<BlankPair>>]})

WorkerStep(responses) ==
    \E w \in 1..Len(workers) :
        \/ WorkerCall(w)
        \/ WorkerResponse(w, responses)
        \/ WorkerFailure(w)

NextDispatch ==
    \/ Idle
    \/ Go
    \/ WorkerStep(SomeResponses)

SpecDispatch == InitDispatch /\ [][NextDispatch]_vars

----------------------------------------------------------------------------
(* The response specification: one dispatch, every response of the model. *)

NextResponse ==
    \/ Idle
    \/ Len(workers) < 1 /\ Go
    \/ WorkerStep(Responses)

SpecResponse == InitDispatch /\ [][NextResponse]_vars

----------------------------------------------------------------------------
(* The method specification: the import of an item, for every method text. *)

OPTIONS == <<"O","P","T","I","O","N","S">>

MethodTexts ==
    UNION {Casings(to_text(m)) : m \in Methods}
        \cup {<<>>, OPTIONS, <<"G","E","T","S">>, <<"P","U">>, <<" ","G","E","T">>}

MethodFiles ==
    {Archive(<<Postman("c1", <<PostmanItem("i1", text)>>), Postman("c2", <<>>)>>) :
        text \in MethodTexts}

InitMethod == InitWorkspace(MethodFiles)

NextMethod == ImportClick

SpecMethod == InitMethod /\ [][NextMethod]_vars

----------------------------------------------------------------------------
(* The request specification: "Go" on a Location of any method and content  *)
(* type, with any params, form_params or header list of the model.          *)

Pair(key, value) == <<key, value>>

ParamPairs ==
    {Pair(<<>>, ""), Pair(<<>>, "v"), Pair(<<"a">>, "1"), Pair(<<"a">>, "2"),
     Pair(<<"b">>, "1")}

HeaderPairs ==
    {Pair(<<>>, ""), Pair(Accept, "a"), Pair(Accept, "b"),
     Pair(ContentType, "text/plain"), Pair(to_lowercase(ContentType), "text/plain"),
     Pair(XTrace, "1"), Pair(XTrace, "2")}

Edited(method, content_type, params, form_params, header) ==
    [NewLocation("u2") EXCEPT !.method = method, !.content_type = content_type,
                              !.params = params, !.form_params = form_params,
                              !.header = header, !.body = "{}"]

EditedLocations ==
    {Edited(method, content_type, params, <<>>, <<BlankPair>>) :
        method \in Methods, content_type \in ContentTypes,
        params \in SeqUpTo(ParamPairs, MaxPairs)}
    \cup
    {Edited(method, content_type, <<BlankPair>>, form_params, <<BlankPair>>) :
        method \in Methods, content_type \in ContentTypes,
        form_params \in SeqUpTo(ParamPairs, MaxPairs)}
    \cup
    {Edited(method, content_type, <<BlankPair>>, <<>>, header) :
        method \in Methods, content_type \in ContentTypes,
        header \in SeqUpTo(HeaderPairs, MaxPairs)}

InitRequest == InitTab(EditedLocations)

NextRequest ==
    \/ Len(workers) < 1 /\ Go
    \/ \E w \in 1..Len(workers) : WorkerCall(w)

SpecRequest == InitRequest /\ [][NextRequest]_vars

----------------------------------------------------------------------------
(* Import. *)

\* the picked file is an archive of one or more Postman documents
PostmanArchive ==
    /\ picked.readable
    /\ Len(picked.docs) >= 1
    /\ \A i \in 1..Len(picked.docs) : picked.docs[i].ok

ItemIds(doc) == [i \in 1..Len(doc.item) |-> doc.item[i].id]

\* C1: an update cycle in which a Postman archive is imported ends with, for
\* every document of the archive, a Directory under the document's collection
\* id whose locations are the document's item ids in order, and with a
\* Collection Store entry under each of these ids.
C1_ImportYieldsEveryDocument ==
    [][(PostmanArchive /\ ImportClick) =>
          \A i \in 1..Len(picked.docs) :
              LET doc == picked.docs[i]
              IN  /\ doc.info._postman_id \in DOMAIN directory'
                  /\ directory'[doc.info._postman_id].id = doc.info._postman_id
                  /\ directory'[doc.info._postman_id].locations = ItemIds(doc)
                  /\ \A j \in 1..Len(doc.item) : doc.item[j].id \in DOMAIN buffers'
      ]_vars

----------------------------------------------------------------------------
(* Method::from_text. *)

\* the method whose name the text is, in any casing; Get for any other text
MethodNamed(text) ==
    IF \E m \in Methods : to_uppercase(text) = to_text(m)
    THEN CHOOSE m \in Methods : to_uppercase(text) = to_text(m)
    ELSE "Get"

\* C2: the Location imported for an item has the method its method text names,
\* whatever the casing of the text, and Get when the text names none (so the
\* text to_text gives for a method is mapped back to that method).
C2_FromTextMapsEveryMethod ==
    \A id \in DOMAIN buffers :
        buffers[id].method = MethodNamed(picked.docs[1].item[1].request.method)

----------------------------------------------------------------------------
(* The request of a dispatch. *)

RECURSIVE Keyed(_)
\* the entries of a list whose key is not empty, in the order of the list
Keyed(list) ==
    IF list = <<>> THEN <<>>
    ELSE IF Len(Head(list)[1]) > 0
         THEN <<Head(list)>> \o Keyed(Tail(list))
         ELSE Keyed(Tail(list))

\* the threads whose request is complete and on its way
Calling == {w \in 1..Len(workers) : workers[w].pc = "calling"}

\* C3: the request of a GET Location has as its query string the Location's
\* params entries with a key, in their order, and nothing else; it has no body.
C3_GetQueryIsKeyedParams ==
    \A w \in Calling :
        workers[w].resource_location.method = "Get" =>
            /\ workers[w].request.query = Keyed(workers[w].resource_location.params)
            /\ \A i \in 1..Len(workers[w].request.query) :
                  workers[w].request.query[i][1] # <<>>
            /\ workers[w].request.body = NoBody

\* a GET request is out whose Location has two params with a key and a blank
\* row between them
C3_Witness ==
    \E w \in Calling :
        /\ workers[w].resource_location.method = "Get"
        /\ Len(workers[w].resource_location.params) = 2
        /\ workers[w].resource_location.params[1][1] = <<>>
        /\ workers[w].resource_location.params[2][1] # <<>>
        /\ Len(workers[w].request.query) = 1

\* the values sent under the header name Content-Type, in any casing
ContentTypeValues(req) ==
    [i \in 1..Len(SelectSeq(req.headers,
                            LAMBDA h : to_lowercase(h[1]) = to_lowercase(ContentType)))
        |-> SelectSeq(req.headers,
                      LAMBDA h : to_lowercase(h[1]) = to_lowercase(ContentType))[i][2]]

\* C4: the request of a POST Location of content type Json carries the one
\* Content-Type value application/json, whatever Content-Type header the
\* Location lists, and the Location's body as it is.
C4_PostJsonContentType ==
    \A w \in Calling :
        (/\ workers[w].resource_location.method = "Post"
         /\ workers[w].resource_location.content_type = "Json") =>
            /\ ContentTypeValues(workers[w].request) = <<"application/json">>
            /\ workers[w].request.body =
                  [kind |-> "string", data |-> workers[w].resource_location.body]

\* C5: the form body of a POST Location of content type FormUrlEncoded is made
\* of the Location's form_params entries with a key, in their order; an entry
\* without a key is not in it.
C5_FormBodyIsKeyedFormParams ==
    \A w \in Calling :
        (/\ workers[w].resource_location.method = "Post"
         /\ workers[w].resource_location.content_type = "FormUrlEncoded") =>
            workers[w].request.body =
                [kind |-> "form",
                 pairs |-> Keyed(workers[w].resource_location.form_params)]

\* C6: whatever the method, every header pair of the Location with a key is
\* among the headers of the request, each pair of those that share a key too,
\* and no header of the request has an empty name.
C6_EveryKeyedHeaderAttached ==
    \A w \in Calling :
        /\ \A i \in 1..Len(workers[w].resource_location.header) :
              workers[w].resource_location.header[i][1] # <<>> =>
                  \E j \in 1..Len(workers[w].request.headers) :
                      workers[w].request.headers[j] =
                          workers[w].resource_location.header[i]
        /\ \A j \in 1..Len(workers[w].request.headers) :
              workers[w].request.headers[j][1] # <<>>

----------------------------------------------------------------------------
(* The snapshot of a response, and the inbox. *)

\* the snapshots that were sent: those waiting in the inbox and the displayed one
Snapshots ==
    {inbox[i] : i \in 1..Len(inbox)} \cup {resource[i] : i \in 1..Len(resource)}

\* the response the dispatch of a snapshot got
ResponseOf(snapshot) == workers[snapshot.dispatch].response[1]

\* C7: the length of a snapshot is the value of the response's Content-Length
\* header when there is one that parses as a non-negative integer, whatever
\* the body, and the byte length of the decoded body when there is no such header.
C7_LengthFromContentLength ==
    \A snapshot \in Snapshots :
        LET response == ResponseOf(snapshot)
        IN  /\ (/\ response.content_length # <<>>
                /\ ParseUsize(response.content_length[1]) # <<>>) =>
                  snapshot.length = ParseUsize(response.content_length[1])[1]
            /\ response.content_length = <<>> =>
                  snapshot.length =
                      Len(IF response.body = <<>> THEN "" ELSE response.body[1])

\* the threads whose call has returned
Returned == {w \in 1..Len(workers) : workers[w].response # <<>>}

\* C8: a dispatch whose round-trip completed with an HTTP response, of any
\* status, headers and body, has sent exactly one snapshot.
C8_OneSnapshotPerResponse ==
    \A w \in Returned :
        workers[w].response[1].ok => workers[w].sent = 1

\* C9: the step in which a dispatch ends in a transport failure sends nothing
\* and leaves the inbox, the displayed snapshot, the Collection Store and the
\* directory set as they were, and the interactive thread running.
C9_FailureChangesNothing ==
    [][\A w \in 1..Len(workers) :
          (/\ workers[w].response = <<>>
           /\ workers'[w].response = <<TransportError>>) =>
              /\ workers'[w].sent = 0
              /\ inbox' = inbox
              /\ resource' = resource
              /\ buffers' = buffers
              /\ directory' = directory
              /\ alive'
      ]_vars

\* a dispatch has failed while the snapshot of another one is displayed
C9_Witness ==
    /\ alive
    /\ resource # <<>>
    /\ \E w \in Returned :
          /\ workers[w].response = <<TransportError>>
          /\ resource[1].dispatch # w

\* the threads that have sent their snapshot, and those whose snapshot was taken
Senders == {w \in 1..Len(workers) : workers[w].sent > 0}

Waiting == {inbox[i].dispatch : i \in 1..Len(inbox)}

Taken == Senders \ Waiting

\* C10: snapshots are taken in the order in which they were sent, whatever the
\* order of the dispatches: a snapshot is not taken while one sent before it
\* waits in the inbox, and the displayed snapshot is, of those taken, the one
\* sent last.
C10_CompletionOrder ==
    /\ \A w1 \in Taken, w2 \in Waiting : workers[w1].order < workers[w2].order
    /\ Taken # {} =>
          /\ resource # <<>>
          /\ resource[1].dispatch \in Taken
          /\ \A w \in Taken : workers[w].order <= workers[resource[1].dispatch].order

\* the second dispatch sent its snapshot before the first, both were taken, and
\* the snapshot of the first is the displayed one
C10_Witness ==
    /\ Len(workers) >= 2
    /\ workers[2].order = 1
    /\ workers[1].order = 2
    /\ inbox = <<>>
    /\ resource # <<>>
    /\ resource[1].dispatch = 1

----------------------------------------------------------------------------
(* The claims about the Directories and the Collection Store. *)

\* the cycle in which the "del" button of the Directory dir is clicked
DirDelCycle(dir) ==
    \E expanded \in SUBSET DOMAIN directory :
        Update(Event("DirDel", dir, "", "", expanded))

\* C11: the cycle that deletes a Directory removes that Directory and no other;
\* every Location id it listed keeps its entry of the Collection Store, with
\* the value it had, and every other Directory is what it was.
C11_DirectoryDeleteFrame ==
    [][\A dir \in DOMAIN directory :
          DirDelCycle(dir) =>
              /\ DOMAIN directory' = DOMAIN directory \ {dir}
              /\ \A other \in DOMAIN directory' : directory'[other] = directory[other]
              /\ \A i \in 1..Len(directory[dir].locations) :
                    LET id == directory[dir].locations[i]
                    IN  id \in DOMAIN buffers' /\ buffers'[id] = buffers[id]]_vars

----------------------------------------------------------------------------
(* The ownership specification: the actions that change which Directory     *)
(* lists which Location, with an archive in which two documents list the    *)
(* same item.                                                                *)

InitOwnership == InitWorkspace({SharedItem})

NextOwnership ==
    \/ DirAdd
    \/ ImportClick
    \/ LocAdd
    \/ LocDel
    \/ DirDel

SpecOwnership == InitOwnership /\ [][NextOwnership]_vars

\* the places at which the Location id is listed: Directory and position
Listings(id) ==
    UNION {{<<dir, i>> : i \in {j \in 1..Len(directory[dir].locations) :
                                    directory[dir].locations[j] = id}} :
           dir \in DOMAIN directory}

\* C12: a Location id is listed by at most one Directory, and at most once in
\* the locations of that Directory.
C12_ExclusiveOwnership ==
    \A id \in DOMAIN buffers : Cardinality(Listings(id)) <= 1

\* the cycle in which the "del" button of the Location id, listed by the
\* Directory dir, is clicked
LocDelCycle(dir, id) ==
    \E expanded \in SUBSET DOMAIN directory :
        /\ dir \in expanded
        /\ Update(Event("LocDel", dir, id, "", expanded))

\* C13: after the cycle that deletes a Location by its "del" button, the
\* Collection Store has no entry for the id of that Location.
C13_LocationDeleteRemovesEntry ==
    [][\A dir \in DOMAIN directory :
          \A i \in 1..Len(directory[dir].locations) :
              LocDelCycle(dir, directory[dir].locations[i]) =>
                  directory[dir].locations[i] \notin DOMAIN buffers']_vars

----------------------------------------------------------------------------
(* The claims about failures. *)

\* the cycle in which the "Import" button is clicked, and the file is picked
ImportCycle ==
    \E expanded \in SUBSET DOMAIN directory :
        Update(Event("Import", "", "", "", expanded))

\* a file that is not an archive, or an archive with a member that is not a
\* Postman document
MalformedFile(file) ==
    \/ ~file.readable
    \/ \E i \in 1..Len(file.docs) : ~file.docs[i].ok

\* C14: the import of a malformed file is a handled error: the interactive
\* thread keeps running, and the Collection Store and the Directories are
\* what they were before the import.
C14_MalformedImportIsHandled ==
    [][ImportCycle /\ MalformedFile(picked) =>
          /\ alive'
          /\ buffers' = buffers
          /\ directory' = directory]_vars

\* the dispatches whose response has a Content-Length header that does not
\* parse as an integer
Unparseable ==
    {w \in Returned :
        /\ workers[w].response[1].ok
        /\ workers[w].response[1].content_length # <<>>
        /\ ParseUsize(workers[w].response[1].content_length[1]) = <<>>}

\* C15: a Content-Length header that does not parse counts as absent: the
\* dispatch has sent one snapshot, whose length is the byte length of the
\* decoded body.
C15_UnparseableLengthIsAbsent ==
    \A w \in Unparseable :
        LET response == workers[w].response[1]
        IN  /\ workers[w].sent = 1
            /\ \E snapshot \in Snapshots :
                  /\ snapshot.dispatch = w
                  /\ snapshot.length =
                        Len(IF response.body = <<>> THEN "" ELSE response.body[1])

----------------------------------------------------------------------------
(* The polling specification: dispatches on a tab that may be closed and    *)
(* opened again.  The update cycles keep occurring, and so do the steps of   *)
(* the threads; what the user clicks is up to the user.                      *)

\* responses whose snapshot the tab can display
JsonResponses ==
    {Response(200, <<>>, <<"{}">>),
     Response(404, << <<"1","0","0">> >>, <<"{\"k\":1}">>)}

NextPoll ==
    \/ Idle
    \/ Go
    \/ TabClose
    \/ LocSelect
    \/ WorkerStep(JsonResponses)

SpecPoll ==
    /\ InitDispatch
    /\ [][NextPoll]_vars
    /\ WF_vars(Idle)
    /\ WF_vars(WorkerStep(JsonResponses))

\* C16: every snapshot sent to the inbox is eventually taken from it, given
\* that update cycles keep occurring, whether a tab is open or not; and no
\* step takes more than one snapshot from the inbox.
C16_EverySnapshotTaken ==
    /\ \A w \in 1..MaxDispatch : (w \in Waiting) ~> (w \in Taken)
    /\ [][Len(inbox') >= Len(inbox) - 1]_vars

----------------------------------------------------------------------------
(* The claims about the rename dialog and the "del" buttons. *)

\* C17: while the rename dialog is shown, dir_rename is the id of a Directory
\* of the directory set, so that the dialog's lookup of it succeeds.
C17_RenamedDirectoryExists ==
    show_confirmation_dialog => dir_rename \in DOMAIN directory

\* the ids the Directory dir lists
Listed(dirs, dir) ==
    {dirs[dir].locations[i] : i \in 1..Len(dirs[dir].locations)}

\* C18: a Directory leaves the directory set only in the cycle in which its
\* own "del" button is clicked, and a Location id leaves the locations of a
\* Directory only in the cycle in which the "del" button of that Location is
\* clicked; whatever the ids are, the empty string included.
C18_OnlyDelRemoves ==
    [][/\ \A dir \in DOMAIN directory \ DOMAIN directory' : DirDelCycle(dir)
       /\ \A dir \in DOMAIN directory \cap DOMAIN directory' :
             \A id \in Listed(directory, dir) \ Listed(directory', dir) :
                 LocDelCycle(dir, id)]_vars

----------------------------------------------------------------------------
(* The store specification: from the empty workspace, the actions on the    *)
(* Directories and Locations, the tabs and one dispatch.                     *)

\* an archive whose first document has one item, without an "id" member
StoreFiles ==
    {Archive(<<Postman("c4", <<PostmanItem("", GET)>>),
               Postman("c2", <<PostmanItem("i2", POST)>>)>>)}

InitStore == InitWorkspace(StoreFiles)

NextStore ==
    \/ Idle
    \/ DirAdd
    \/ ImportClick
    \/ LocAdd
    \/ LocDel
    \/ DirDel
    \/ LocSelect
    \/ TabClose
    \/ Len(workers) < 1 /\ Go
    \/ WorkerStep(JsonResponses)

SpecStore == InitStore /\ [][NextStore]_vars

\* C19: every id a Directory lists, and the id of every open tab, has an entry
\* in the Collection Store.
C19_ListedAndOpenAreStored ==
    /\ \A dir \in DOMAIN directory : Listed(directory, dir) \subseteq DOMAIN buffers
    /\ \A i \in 1..Len(tree.tabs) : tree.tabs[i] \in DOMAIN buffers

\* a tab is open on a Location that no Directory lists any more, next to a
\* Directory that lists another one, and a dispatch was made
C19_Witness ==
    /\ alive
    /\ workers # <<>>
    /\ \E i \in 1..Len(tree.tabs) :
          \A dir \in DOMAIN directory : tree.tabs[i] \notin Listed(directory, dir)
    /\ \E dir \in DOMAIN directory : Listed(directory, dir) # {}

----------------------------------------------------------------------------
(* The claim about the display of a snapshot. *)

\* C20: whatever snapshot was taken from the inbox, whatever its status and
\* body, the interactive thread is running with it displayed: the cycle that
\* took it, and the cycles after it, did not end in a panic.
C20_SnapshotNeverTerminates ==
    resource # <<>> => alive

====
